---------------------------- MODULE Spec2Model ----------------------------
(***************************************************************************)
(* expose.py: the incremental build engine.                                *)
(*                                                                         *)
(* The model covers collection (media_jobs / file_targets / is_dirty),     *)
(* execution (run_jobs with a multiprocessing Pool, convert_image,         *)
(* convert_video, write_hash) and the __main__ sequence that ties them     *)
(* together, over a filesystem that persists between runs.                 *)
(***************************************************************************)
EXTENDS Integers, Sequences, FiniteSets, TLC

(***************************************************************************)
(* Bounds of the model.                                                    *)
(***************************************************************************)
\* number of invocations of expose.py in one behaviour
MaxRuns == 3
\* number of changes the environment makes between runs (a source file
\* edited, an output file deleted)
MaxChanges == 1
\* number of versions a source file's bytes can take
MaxVersions == 2
\* os.cpu_count(): the size of Pool()
CpuCount == 2

(***************************************************************************)
(* Program constants.                                                      *)
(***************************************************************************)
\* VIDEO_FMT_EXTS
VIDEO_FMT_EXTS == [h264 |-> ".mp4", webm |-> ".webm"]

\* The no-value of Python.
None == "None"

\* What media_jobs returns: None when there are no sources, else a list.
NoJobs == [none |-> TRUE, list |-> <<>>]

JobList(jobs) == [none |-> FALSE, list |-> jobs]

(***************************************************************************)
(* Names.  A source path is modelled after splitext(basename(src)): the    *)
(* base name as a sequence of one-character strings, and the extension.    *)
(***************************************************************************)
Whitespace == {" "}

\* The extensions the model's paths end in.
Extensions == {".jpg", ".mp4"}

RECURSIVE basename(_)
\* os.path.basename(p): what follows the last "/"
basename(p) ==
    IF p = <<>> THEN <<>>
    ELSE IF p[Len(p)] = "/" THEN <<>>
    ELSE Append(basename(SubSeq(p, 1, Len(p) - 1)), p[Len(p)])

\* os.path.splitext(n): <<root, ext>>, split at the last dot unless that
\* dot leads the name; a path of the model has a dot in its extension only
splitext(n) ==
    IF Len(n) > 1 /\ n[Len(n)] \in Extensions
    THEN <<SubSeq(n, 1, Len(n) - 1), n[Len(n)]>>
    ELSE <<n, "">>

\* a source path as the model keeps it: splitext(basename(path)), and the
\* path it came from
Source(path) ==
    [base |-> splitext(basename(path))[1],
     ext  |-> splitext(basename(path))[2],
     path |-> path]

RECURSIVE SplitFrom(_, _)
\* str.split() with no argument: the maximal runs of non-whitespace
\* characters; `cur` is the run being read.
SplitFrom(s, cur) ==
    IF s = <<>>
    THEN IF cur = <<>> THEN <<>> ELSE <<cur>>
    ELSE IF Head(s) \in Whitespace
         THEN IF cur = <<>>
              THEN SplitFrom(Tail(s), <<>>)
              ELSE <<cur>> \o SplitFrom(Tail(s), <<>>)
         ELSE SplitFrom(Tail(s), Append(cur, Head(s)))

split_ws(s) == SplitFrom(s, <<>>)

RECURSIVE hyphen_join(_)
\* '-'.join(words)
hyphen_join(words) ==
    IF words = <<>> THEN <<>>
    ELSE IF Len(words) = 1 THEN Head(words)
    ELSE Head(words) \o <<"-">> \o hyphen_join(Tail(words))

\* sanitary_name_and_ext returning the name as splitext left it
sanitary_name_and_ext_as_is(src) == <<src.base, src.ext>>

\* sanitary_name_and_ext(src): <<name, ext>>
sanitary_name_and_ext(src) == <<hyphen_join(split_ws(src.base)), src.ext>>

\* sanitary_name(src)
sanitary_name(src) == sanitary_name_and_ext(src)[1]

\* target_dir(cfg, src): join(cfg.DST_DIR, sanitary_name(src))
target_dir(cfg, src) == <<cfg.DST_DIR, sanitary_name(src)>>

\* A file name is kept in its parts: what was put in front of it, the
\* sanitized name, the resolution, the extension and what was put behind it.
\* full = name + '-' + str(resolution) + ext, in directory target_dir
DstPath(cfg, src, resolution, ext) ==
    [dir  |-> target_dir(cfg, src),
     file |-> [pre |-> <<>>, name |-> sanitary_name(src),
               res |-> resolution, ext |-> ext, suf |-> <<>>]]

\* one record per source directory: join(target_dir, '.src.sha256')
hash_path_for_source(dst) ==
    [dir  |-> dst.dir,
     file |-> [pre |-> <<".">>, name |-> <<>>, res |-> 0, ext |-> "",
               suf |-> <<"src.sha256">>]]

\* hash_path_for_dst(dst): same directory, '.' + name + '.src.sha256'
hash_path_for_dst(dst) ==
    [dir  |-> dst.dir,
     file |-> [dst.file EXCEPT !.pre = <<".">> \o @,
                               !.suf = @ \o <<".src.sha256">>]]

\* the poster of a video destination: splitext(job.dst)[0] + '.jpg'
poster_dst(dst) ==
    [dir |-> dst.dir, file |-> [dst.file EXCEPT !.ext = ".jpg"]]

(***************************************************************************)
(* State.                                                                  *)
(***************************************************************************)
VARIABLES
    cfg,        \* the Config of __main__ (the policy part)
    srcs,       \* source files on disk: [kind -> set of source paths]
    content,    \* source path -> version of its bytes
    dims,       \* source path -> <<width, height>> as ffprobe reports it,
                \* <<>> when the probe fails
    files,      \* output files on disk: path -> what the file holds
    dirs,       \* output directories on disk
    pc,         \* where __main__ is
    dry_run,    \* args['--dry-run'] of the current run
    ij, vj,     \* the results of img_jobs / vid_jobs (NoJobs or a list)
    pool,       \* the kind of jobs the live Pool() was given, or None
    jpc,        \* kind -> index in the job list -> where that wrapper is
    queue,      \* number of completion signals in manager.Queue()
    total,      \* run_jobs' local `total`
    runs, changes,  \* counters for the bounds
    hist        \* observations of the current run (not program state)

vars == <<cfg, srcs, content, dims, files, dirs, pc, dry_run, ij, vj,
          pool, jpc, queue, total, runs, changes, hist>>

(***************************************************************************)
(* The filesystem.                                                         *)
(***************************************************************************)
\* os.path.isfile
isfile(fs, p) == p \in DOMAIN fs

\* hash_file(src): SHA-256 of the bytes, taken as collision free
hash_file(cont, src) == [sha256 |-> <<src, cont[src]>>]

\* what a sidecar holds after write_hash
HashFile(digest) == [kind |-> "hash", digest |-> digest]

\* what an output of convert / ffmpeg holds: the source bytes it was made
\* from, the width it was made at, and whether the tool finished writing it
MediaFile(cont, src, size, complete) ==
    [kind |-> "media", src |-> src, version |-> cont[src],
     size |-> size, complete |-> complete]

\* is_dirty with the missing-record case answering False
is_dirty_missing_clean(fs, cont, src, dst) ==
    IF ~isfile(fs, hash_path_for_dst(dst))
    THEN FALSE
    ELSE hash_file(cont, src) # fs[hash_path_for_dst(dst)].digest

\* is_dirty(src, dst)
is_dirty(fs, cont, src, dst) ==
    IF ~isfile(fs, hash_path_for_dst(dst))
    THEN TRUE
    ELSE hash_file(cont, src) # fs[hash_path_for_dst(dst)].digest


(***************************************************************************)
(* Jobs.                                                                   *)
(***************************************************************************)
\* ImageJob(src, dst, size, dry_run)
ImageJob(src, dst, size, dry) ==
    [kind |-> "image", src |-> src, dst |-> dst, size |-> size,
     dry_run |-> dry]

\* VideoJob(cfg, src, dst, format, resolution, bitrate, dry_run); the cfg
\* field is the run's Config, which the state already holds
VideoJob(src, dst, fmt, resolution, bitrate, dry) ==
    [kind |-> "video", src |-> src, dst |-> dst, format |-> fmt,
     resolution |-> resolution, bitrate |-> bitrate, dry_run |-> dry]

(***************************************************************************)
(* Collection: file_targets and media_jobs.                                *)
(***************************************************************************)
RECURSIVE Flatten(_)
Flatten(ss) == IF ss = <<>> THEN <<>> ELSE Head(ss) \o Flatten(Tail(ss))

\* the loops nested the other way round: resolutions around formats
target_loop_by_resolution(c, src, is_video) ==
    IF is_video
    THEN Flatten([i \in 1..Len(c.RESOLUTIONS) |->
             [f \in 1..Len(c.VIDEO_FORMATS) |->
                 [fmt |-> c.VIDEO_FORMATS[f], i |-> i,
                  ext |-> VIDEO_FMT_EXTS[c.VIDEO_FORMATS[f]]]]])
    ELSE [i \in 1..Len(c.RESOLUTIONS) |->
             [fmt |-> None, i |-> i, ext |-> sanitary_name_and_ext(src)[2]]]

\* The iterations of file_targets' loops, in the order the code runs them:
\* for a video `for fmt in cfg.VIDEO_FORMATS` around
\* `for i, resolution in enumerate(cfg.RESOLUTIONS)`, for an image the
\* resolutions alone.  An iteration is [fmt, i, ext].
target_loop(c, src, is_video) ==
    IF is_video
    THEN Flatten([f \in 1..Len(c.VIDEO_FORMATS) |->
             [i \in 1..Len(c.RESOLUTIONS) |->
                 [fmt |-> c.VIDEO_FORMATS[f], i |-> i,
                  ext |-> VIDEO_FMT_EXTS[c.VIDEO_FORMATS[f]]]]])
    ELSE [i \in 1..Len(c.RESOLUTIONS) |->
             [fmt |-> None, i |-> i, ext |-> sanitary_name_and_ext(src)[2]]]

\* `(not isfile(dst)) or is_dirty(src, dst)`
needs_work(fs, cont, src, dst) ==
    (~isfile(fs, dst)) \/ is_dirty(fs, cont, src, dst)

\* the calls of hash_file(src) that `(not isfile(dst)) or is_dirty(src, dst)`
\* makes: is_dirty is evaluated when dst is a file, and hashes the source
\* once it has read the record
hash_calls(fs, dst) ==
    IF isfile(fs, dst) /\ isfile(fs, hash_path_for_dst(dst)) THEN 1 ELSE 0

RECURSIVE Sum(_)
Sum(ns) == IF ns = <<>> THEN 0 ELSE Head(ns) + Sum(Tail(ns))

\* the loop body comparing the resolution with the longer side
target_step_longer_side(c, fs, cont, dm, src, is_video, it) ==
    LET resolution == c.RESOLUTIONS[it.i]
        longer     == IF dm[src][1] > dm[src][2] THEN dm[src][1]
                      ELSE dm[src][2]
        dst        == DstPath(c, src, resolution, it.ext)
    IN  IF resolution > longer THEN "continue"
        ELSE IF is_video /\ it.i > Len(c.VIDEO_BITRATES) THEN "raise"
        ELSE IF needs_work(fs, cont, src, dst) THEN "target"
        ELSE "skipped"

\* the loop body without its `if resolution > width: continue`
target_step_any_width(c, fs, cont, dm, src, is_video, it) ==
    LET resolution == c.RESOLUTIONS[it.i]
        dst        == DstPath(c, src, resolution, it.ext)
    IN  IF is_video /\ it.i > Len(c.VIDEO_BITRATES) THEN "raise"
        ELSE IF needs_work(fs, cont, src, dst) THEN "target"
        ELSE "skipped"

\* What one iteration of the loop does: "continue" (resolution above the
\* width), "raise" (no bitrate at index i), "target" or "skipped".
target_step(c, fs, cont, dm, src, is_video, it) ==
    LET resolution == c.RESOLUTIONS[it.i]
        width      == dm[src][1]
        dst        == DstPath(c, src, resolution, it.ext)
    IN  IF resolution > width THEN "continue"
        ELSE IF is_video /\ it.i > Len(c.VIDEO_BITRATES) THEN "raise"
        ELSE IF needs_work(fs, cont, src, dst) THEN "target"
        ELSE "skipped"

\* The job an iteration appends to `targets`.
target_job(c, src, is_video, dry, it) ==
    LET resolution == c.RESOLUTIONS[it.i]
        dst        == DstPath(c, src, resolution, it.ext)
    IN  IF is_video
        THEN VideoJob(src, dst, it.fmt, resolution, c.VIDEO_BITRATES[it.i],
                      dry)
        ELSE ImageJob(src, dst, resolution, dry)

\* file_targets(cfg, src, is_video, dry_run): [targets, skipped, raised], and
\* `hashed`, the number of times it had the source hashed.
\* dimensions(src) raises when the probe fails, and cfg.VIDEO_BITRATES[i]
\* raises when the bitrate list is too short; either ends the function.
file_targets(c, fs, cont, dm, src, is_video, dry) ==
    LET loop    == target_loop(c, src, is_video)
        step(k) == target_step(c, fs, cont, dm, src, is_video, loop[k])
        ran     == SelectSeq([k \in 1..Len(loop) |-> k],
                             LAMBDA k: step(k) = "target")
    IN  IF dm[src] = <<>> \/ \E k \in 1..Len(loop) : step(k) = "raise"
        THEN [targets |-> <<>>, skipped |-> 0, raised |-> TRUE, hashed |-> 0]
        ELSE [targets |-> [n \in 1..Len(ran) |->
                              target_job(c, src, is_video, dry, loop[ran[n]])],
              skipped |-> Cardinality({k \in 1..Len(loop) :
                                          step(k) = "skipped"}),
              raised  |-> FALSE,
              hashed  |-> Sum([k \in 1..Len(loop) |->
                                IF step(k) = "continue" THEN 0
                                ELSE hash_calls(fs,
                                       DstPath(c, src,
                                               c.RESOLUTIONS[loop[k].i],
                                               loop[k].ext))])]

RECURSIVE media_loop(_, _, _, _, _, _, _)
\* the loop of media_jobs over the sources: jobs.extend(j); skipped += s
media_loop(c, fs, cont, dm, si, is_video, dry) ==
    IF si = <<>>
    THEN [jobs |-> <<>>, skipped |-> 0, raised |-> FALSE, hashed |-> <<>>]
    ELSE LET t    == file_targets(c, fs, cont, dm, Head(si), is_video, dry)
             rest == media_loop(c, fs, cont, dm, Tail(si), is_video, dry)
         IN  IF t.raised
             THEN [jobs |-> <<>>, skipped |-> 0, raised |-> TRUE,
                   hashed |-> <<>>]
             ELSE [jobs    |-> t.targets \o rest.jobs,
                   skipped |-> t.skipped + rest.skipped,
                   raised  |-> rest.raised,
                   hashed  |-> <<t.hashed>> \o rest.hashed]

\* media_jobs(cfg, dry_run, is_video): what it returns (None when there is
\* no source file), what it counted, whether it logged the summary line and
\* whether an exception left it.
media_jobs(c, fs, cont, dm, si, is_video, dry) ==
    IF si = <<>>
    THEN [jobs |-> NoJobs, skipped |-> 0, summary |-> FALSE,
          raised |-> FALSE, hashed |-> <<>>]
    ELSE LET r == media_loop(c, fs, cont, dm, si, is_video, dry)
         IN  IF r.raised
             THEN [jobs |-> NoJobs, skipped |-> 0, summary |-> FALSE,
                   raised |-> TRUE, hashed |-> <<>>]
             ELSE [jobs |-> JobList(r.jobs), skipped |-> r.skipped,
                   summary |-> TRUE, raised |-> FALSE, hashed |-> r.hashed]


(***************************************************************************)
(* The inputs of the model: the source trees and the policy.               *)
(***************************************************************************)
Img(base) == [base |-> base, ext |-> ".jpg"]

Vid(base) == [base |-> base, ext |-> ".mp4"]

\* The source trees: what glob returns for the image and video patterns.
SourceTrees ==
    { [image |-> <<>>,              video |-> <<>>],
      [image |-> <<Img(<<"a">>)>>,  video |-> <<>>],
      [image |-> <<Img(<<"a">>)>>,  video |-> <<Vid(<<"b">>)>>],
      [image |-> <<Img(<<"a", " ", "b">>), Img(<<"a", "-", "b">>)>>,
       video |-> <<>>] }

\* The Config of __main__, with the tail of its resolution ladder.
DefaultConfig ==
    [DST_DIR             |-> "_site",
     RESOLUTIONS         |-> <<1280, 640>>,
     VIDEO_BITRATES      |-> <<7, 2>>,
     VIDEO_FORMATS       |-> <<"h264", "webm">>,
     VIDEO_VBR_MAX_RATIO |-> 2]

\* What ffprobe reports for every source of the model.
ProbedSize == <<1000, 750>>

Range(f) == {f[x] : x \in DOMAIN f}

AllSources(tree) == Range(tree.image) \cup Range(tree.video)

Versions == 1..MaxVersions

Kind(is_video) == IF is_video THEN "video" ELSE "image"

EmptyHist ==
    [pools     |-> 0,
     ticks     |-> 0,
     extracted |-> {},
     pre       |-> [image |-> <<>>, video |-> <<>>],
     skipped   |-> [image |-> 0, video |-> 0],
     hashed    |-> [image |-> <<>>, video |-> <<>>],
     log       |-> [image |-> <<>>, video |-> <<>>],
     dry_log   |-> [valid |-> FALSE, log |-> [image |-> <<>>, video |-> <<>>]],
     summary   |-> <<>>,
     disturbed |-> FALSE,
     after_clean |-> FALSE]

Init ==
    /\ cfg = DefaultConfig
    /\ srcs \in SourceTrees
    /\ content = [s \in AllSources(srcs) |-> 1]
    /\ dims = [s \in AllSources(srcs) |-> ProbedSize]
    /\ files = <<>>
    /\ dirs = {}
    /\ pc = "idle"
    /\ dry_run = FALSE
    /\ ij = NoJobs
    /\ vj = NoJobs
    /\ pool = None
    /\ jpc = [image |-> <<>>, video |-> <<>>]
    /\ queue = 0
    /\ total = 0
    /\ runs = 0
    /\ changes = 0
    /\ hist = EmptyHist

(***************************************************************************)
(* __main__.                                                               *)
(***************************************************************************)
\* The run before this one was live, returned from both run_jobs calls (so
\* every transform of it succeeded), and nothing was edited or deleted since.
CleanRunBehind == pc = "done" /\ ~dry_run /\ ~hist.disturbed

\* The run before this one was a dry run that returned from both run_jobs
\* calls, and nothing was edited or deleted since.
DryRunBehind == pc = "done" /\ dry_run /\ ~hist.disturbed

\* A new invocation of expose.py: docopt reads --dry-run.
StartRun ==
    /\ pc \in {"idle", "done", "crashed"}
    /\ runs < MaxRuns
    /\ runs' = runs + 1
    /\ dry_run' \in BOOLEAN
    /\ pc' = "img_jobs"
    /\ ij' = NoJobs
    /\ vj' = NoJobs
    /\ pool' = None
    /\ jpc' = [image |-> <<>>, video |-> <<>>]
    /\ queue' = 0
    /\ total' = 0
    /\ hist' = [EmptyHist EXCEPT !.after_clean = CleanRunBehind,
                                 !.dry_log = IF DryRunBehind
                                             THEN [valid |-> TRUE,
                                                   log   |-> hist.log]
                                             ELSE @]
    /\ UNCHANGED <<cfg, srcs, content, dims, files, dirs, changes>>

\* ij = img_jobs(config, dry_run) / vj = vid_jobs(config, dry_run)
CollectJobs(is_video) ==
    /\ pc = IF is_video THEN "vid_jobs" ELSE "img_jobs"
    /\ LET kind == Kind(is_video)
           r    == media_jobs(cfg, files, content, dims, srcs[kind],
                              is_video, dry_run)
       IN  /\ IF is_video
              THEN vj' = r.jobs /\ ij' = ij
              ELSE ij' = r.jobs /\ vj' = vj
           /\ jpc' = [jpc EXCEPT
                        ![kind] = [k \in 1..Len(r.jobs.list) |-> "pending"]]
           /\ hist' = [hist EXCEPT
                        !.skipped[kind] = r.skipped,
                        !.hashed[kind] = r.hashed,
                        !.pre[kind] = [k \in 1..Len(r.jobs.list) |-> {}],
                        !.log[kind] = [k \in 1..Len(r.jobs.list) |-> <<>>],
                        !.summary = IF r.summary
                                    THEN Append(@, [kind    |-> kind,
                                                    running |-> Len(r.jobs.list),
                                                    skipped |-> r.skipped])
                                    ELSE @]
           /\ pc' = IF r.raised THEN "crashed"
                    ELSE IF is_video THEN "run_img" ELSE "vid_jobs"
    /\ UNCHANGED <<cfg, srcs, content, dims, files, dirs, dry_run, pool,
                   queue, total, runs, changes>>

\* the jobs run_img_jobs / run_vid_jobs pass to run_jobs
JobsOf(kind) == IF kind = "video" THEN vj ELSE ij

\* run_jobs entered without its `if not jobs: return`
RunJobsNoGuard(is_video) ==
    /\ pc = IF is_video THEN "run_vid" ELSE "run_img"
    /\ pool' = Kind(is_video)
    /\ queue' = 0
    /\ total' = Len(JobsOf(Kind(is_video)).list)
    /\ hist' = [hist EXCEPT !.pools = @ + 1]
    /\ pc' = IF is_video THEN "drain_vid" ELSE "drain_img"
    /\ UNCHANGED <<cfg, srcs, content, dims, files, dirs, dry_run, ij, vj,
                   jpc, runs, changes>>

\* run_jobs(jobs, is_video) up to pool.map_async: return at once when
\* `not jobs`, else Pool(), manager.Queue(), total = len(wrapped_jobs).
RunJobs(is_video) ==
    /\ pc = IF is_video THEN "run_vid" ELSE "run_img"
    /\ LET jobs == JobsOf(Kind(is_video))
       IN  IF jobs.none \/ jobs.list = <<>>
           THEN /\ pc' = IF is_video THEN "done" ELSE "run_vid"
                /\ UNCHANGED <<pool, queue, total, hist>>
           ELSE /\ pool' = Kind(is_video)
                /\ queue' = 0
                /\ total' = Len(jobs.list)
                /\ hist' = [hist EXCEPT !.pools = @ + 1]
                /\ pc' = IF is_video THEN "drain_vid" ELSE "drain_img"
    /\ UNCHANGED <<cfg, srcs, content, dims, files, dirs, dry_run, ij, vj,
                   jpc, runs, changes>>

\* one turn of `while total > 0`: queue.get(); bar.update(); total -= 1
QueueGet ==
    /\ pc \in {"drain_img", "drain_vid"}
    /\ total > 0
    /\ queue > 0
    /\ queue' = queue - 1
    /\ total' = total - 1
    /\ hist' = [hist EXCEPT !.ticks = @ + 1]
    /\ UNCHANGED <<cfg, srcs, content, dims, files, dirs, pc, dry_run, ij, vj,
                   pool, jpc, runs, changes>>

\* the `with Pool()` block left without waiting for `total` to reach 0
PoolExitEarly ==
    /\ pc \in {"drain_img", "drain_vid"}
    /\ pool' = None
    /\ pc' = IF pc = "drain_img" THEN "run_vid" ELSE "done"
    /\ UNCHANGED <<cfg, srcs, content, dims, files, dirs, dry_run, ij, vj,
                   jpc, queue, total, runs, changes, hist>>

\* the loop ends and the `with Pool()` block is left
PoolExit ==
    /\ pc \in {"drain_img", "drain_vid"}
    /\ total = 0
    /\ pool' = None
    /\ pc' = IF pc = "drain_img" THEN "run_vid" ELSE "done"
    /\ UNCHANGED <<cfg, srcs, content, dims, files, dirs, dry_run, ij, vj,
                   jpc, queue, total, runs, changes, hist>>


(***************************************************************************)
(* The pool: pool.map_async(wrapper, wrapped_jobs).                        *)
(***************************************************************************)
\* the chunk size map_async computes: ceil(len(iterable) / (4 * workers))
chunksize(n) ==
    IF n % (CpuCount * 4) # 0
    THEN (n \div (CpuCount * 4)) + 1
    ELSE n \div (CpuCount * 4)

\* the task (chunk) job k of n belongs to, and the first job of that chunk
chunk_of(k, n) == (k - 1) \div chunksize(n)

chunk_first(k, n) == chunk_of(k, n) * chunksize(n) + 1

chunk_last(k, n) ==
    IF (chunk_of(k, n) + 1) * chunksize(n) < n
    THEN (chunk_of(k, n) + 1) * chunksize(n)
    ELSE n

Raised == {"failed", "failed_exists"}

\* a worker holds the chunk of job k: the chunk was taken and neither ran to
\* its end nor was left by an exception (mapstar stops at the first raise)
chunk_busy(p, k) ==
    LET n == Len(p)
    IN  /\ p[chunk_first(k, n)] # "pending"
        /\ p[chunk_last(k, n)] # "done"
        /\ \A j \in chunk_first(k, n)..chunk_last(k, n) : p[j] \notin Raised

busy_workers(p) ==
    Cardinality({chunk_of(k, Len(p)) : k \in {j \in 1..Len(p) :
                                                chunk_busy(p, j)}})

\* the jobs of the live pool
PoolJobs == JobsOf(pool).list

\* Sidecar record of a destination, as a set: empty when there is none.
Sidecar(fs, dst) ==
    IF isfile(fs, hash_path_for_dst(dst))
    THEN {fs[hash_path_for_dst(dst)]}
    ELSE {}

\* mkdir_for_dst calling makedirs whatever dry_run is
mkdir_for_dst_always(ds, dst, dry) == ds \cup {dst.dir}

\* mkdir_for_dst(dst, dry_run): the directories after it
mkdir_for_dst(ds, dst, dry) == IF dry THEN ds ELSE ds \cup {dst.dir}

\* A worker takes job k: the first of a chunk when a worker is free and the
\* chunks before it are taken, a later one when its predecessor in the chunk
\* returned.  The wrapper starts with mkdir_for_dst(job.dst, dry_run).
JobStart(k) ==
    /\ pool # None
    /\ k \in 1..Len(PoolJobs)
    /\ jpc[pool][k] = "pending"
    /\ LET n == Len(PoolJobs)
       IN  IF k = chunk_first(k, n)
           THEN /\ \A j \in 1..(k - 1) : jpc[pool][j] # "pending"
                                         \/ j # chunk_first(j, n)
                /\ busy_workers(jpc[pool]) < CpuCount
           ELSE jpc[pool][k - 1] = "done"
    /\ dirs' = mkdir_for_dst(dirs, PoolJobs[k].dst, dry_run)
    /\ jpc' = [jpc EXCEPT ![pool][k] = "exec"]
    /\ hist' = [hist EXCEPT !.pre[pool][k] = Sidecar(files, PoolJobs[k].dst),
                            !.log[pool][k] = Append(@, "makedirs")]
    /\ UNCHANGED <<cfg, srcs, content, dims, files, pc, dry_run, ij, vj,
                   pool, queue, total, runs, changes>>

\* What an external tool writing `out` from `src` can leave behind, with the
\* state its caller moves to: the finished file (exit status 0), or, with a
\* non-zero exit status, the file as it was or a partly written file.
ToolOutcomes(fs, out, made, ok_pc) ==
    { [files |-> (out :> made) @@ fs, to |-> ok_pc],
      [files |-> fs, to |-> "failed"],
      [files |-> (out :> [made EXCEPT !.complete = FALSE]) @@ fs,
       to |-> "failed"] }

\* convert_image(job) after mkdir_for_dst: the dry-run log line, or
\* check_call(['convert', job.src, '-resize', ..., job.dst])
ConvertImage(k) ==
    /\ pool = "image"
    /\ k \in 1..Len(PoolJobs)
    /\ jpc[pool][k] = "exec"
    /\ LET job == PoolJobs[k]
       IN  IF job.dry_run
           THEN /\ jpc' = [jpc EXCEPT ![pool][k] = "put"]
                /\ files' = files
           ELSE \E o \in ToolOutcomes(files, job.dst,
                            MediaFile(content, job.src, job.size, TRUE),
                            "write_hash") :
                    /\ files' = o.files
                    /\ jpc' = [jpc EXCEPT ![pool][k] = o.to]
    /\ hist' = [hist EXCEPT !.log[pool][k] = Append(@, "convert")]
    /\ UNCHANGED <<cfg, srcs, content, dims, dirs, pc, dry_run, ij, vj, pool,
                   queue, total, runs, changes>>

\* convert_video(job) after mkdir_for_dst: the dry-run log line, or
\* check_call(cmd, shell=True) of VIDEO_FMT_COMMANDS[job.format] (ffmpeg -y)
EncodeVideo(k) ==
    /\ pool = "video"
    /\ k \in 1..Len(PoolJobs)
    /\ jpc[pool][k] = "exec"
    /\ LET job == PoolJobs[k]
       IN  IF job.dry_run
           THEN /\ jpc' = [jpc EXCEPT ![pool][k] = "poster_check"]
                /\ files' = files
           ELSE \E o \in ToolOutcomes(files, job.dst,
                            MediaFile(content, job.src, job.resolution, TRUE),
                            "poster_check") :
                    /\ files' = o.files
                    /\ jpc' = [jpc EXCEPT ![pool][k] = o.to]
    /\ hist' = [hist EXCEPT !.log[pool][k] = Append(@, "encode")]
    /\ UNCHANGED <<cfg, srcs, content, dims, dirs, pc, dry_run, ij, vj, pool,
                   queue, total, runs, changes>>

\* where convert_video goes after the poster step
AfterPoster(job) == IF job.dry_run THEN "put" ELSE "write_hash"

\* `if not isfile(poster_dst):`
PosterCheck(k) ==
    /\ pool = "video"
    /\ k \in 1..Len(PoolJobs)
    /\ jpc[pool][k] = "poster_check"
    /\ jpc' = [jpc EXCEPT ![pool][k] =
                 IF isfile(files, poster_dst(PoolJobs[k].dst))
                 THEN AfterPoster(PoolJobs[k])
                 ELSE "poster"]
    /\ UNCHANGED <<cfg, srcs, content, dims, files, dirs, pc, dry_run, ij, vj,
                   pool, queue, total, runs, changes, hist>>

\* The poster ffmpeg extracts from the encoded video at job.dst.
PosterOf(fs, job) == [fs[job.dst] EXCEPT !.complete = TRUE]

\* The body of `if not isfile(poster_dst):`: the dry-run log line, or
\* check_call('ffmpeg -loglevel error -i dst -vframes 1 -f image2 poster').
\* The command has no -y: ffmpeg exits non-zero when the poster exists by
\* then (the worker's stdin is /dev/null), and when its input is missing.
ExtractPoster(k) ==
    /\ pool = "video"
    /\ k \in 1..Len(PoolJobs)
    /\ jpc[pool][k] = "poster"
    /\ LET job == PoolJobs[k]
           out == poster_dst(job.dst)
       IN  IF job.dry_run
           THEN /\ jpc' = [jpc EXCEPT ![pool][k] = AfterPoster(job)]
                /\ files' = files
                /\ hist' = [hist EXCEPT !.log[pool][k] = Append(@, "poster")]
           ELSE /\ hist' = [hist EXCEPT !.extracted = @ \cup {k},
                                        !.log[pool][k] = Append(@, "poster")]
                /\ IF isfile(files, out)
                   THEN /\ jpc' = [jpc EXCEPT ![pool][k] = "failed_exists"]
                        /\ files' = files
                   ELSE IF ~isfile(files, job.dst)
                   THEN /\ jpc' = [jpc EXCEPT ![pool][k] = "failed"]
                        /\ files' = files
                   ELSE \E o \in ToolOutcomes(files, out,
                                    PosterOf(files, job), "write_hash") :
                            /\ files' = o.files
                            /\ jpc' = [jpc EXCEPT ![pool][k] = o.to]
    /\ UNCHANGED <<cfg, srcs, content, dims, dirs, pc, dry_run, ij, vj, pool,
                   queue, total, runs, changes>>

\* write_hash(src, dst): the files after it
write_hash(fs, cont, src, dst) ==
    (hash_path_for_dst(dst) :> HashFile(hash_file(cont, src))) @@ fs

\* write_hash(job.src, job.dst) at the end of convert_image / convert_video
WriteHash(k) ==
    /\ pool # None
    /\ k \in 1..Len(PoolJobs)
    /\ jpc[pool][k] = "write_hash"
    /\ files' = write_hash(files, content, PoolJobs[k].src, PoolJobs[k].dst)
    /\ jpc' = [jpc EXCEPT ![pool][k] = "put"]
    /\ UNCHANGED <<cfg, srcs, content, dims, dirs, pc, dry_run, ij, vj, pool,
                   queue, total, runs, changes, hist>>

\* queue.put(True), the wrapper's last statement
QueuePut(k) ==
    /\ pool # None
    /\ k \in 1..Len(PoolJobs)
    /\ jpc[pool][k] = "put"
    /\ queue' = queue + 1
    /\ jpc' = [jpc EXCEPT ![pool][k] = "done"]
    /\ UNCHANGED <<cfg, srcs, content, dims, files, dirs, pc, dry_run, ij, vj,
                   pool, total, runs, changes, hist>>


(***************************************************************************)
(* The environment between runs, and a run that is ended from outside.     *)
(***************************************************************************)
Resting == pc \in {"idle", "done", "crashed"}

\* no wrapper of the live pool can take another step
PoolQuiet ==
    /\ pool # None
    /\ \A k \in 1..Len(PoolJobs) :
          \/ jpc[pool][k] \in Raised \cup {"done"}
          \/ /\ jpc[pool][k] = "pending"
             /\ ~ENABLED JobStart(k)

\* run_jobs waits in queue.get() for a signal that no wrapper will put
Stuck ==
    /\ pc \in {"drain_img", "drain_vid"}
    /\ total > 0
    /\ queue = 0
    /\ PoolQuiet

\* The user interrupts a run that waits forever; the pool dies with it.
Interrupt ==
    /\ Stuck
    /\ pc' = "crashed"
    /\ pool' = None
    /\ UNCHANGED <<cfg, srcs, content, dims, files, dirs, dry_run, ij, vj,
                   jpc, queue, total, runs, changes, hist>>

\* Between two runs no process of expose.py exists: what a finished run
\* left in memory is gone once the environment has moved on.
NoProcess ==
    /\ pc' = "idle"
    /\ dry_run' = FALSE
    /\ ij' = NoJobs
    /\ vj' = NoJobs
    /\ pool' = None
    /\ jpc' = [image |-> <<>>, video |-> <<>>]
    /\ queue' = 0
    /\ total' = 0
    /\ hist' = [EmptyHist EXCEPT !.disturbed = TRUE]

\* A source file is edited between two runs.
EditSource(src) ==
    /\ Resting
    /\ changes < MaxChanges
    /\ src \in DOMAIN content
    /\ \E v \in Versions \ {content[src]} :
          content' = [content EXCEPT ![src] = v]
    /\ changes' = changes + 1
    /\ NoProcess
    /\ UNCHANGED <<cfg, srcs, dims, files, dirs, runs>>

\* An output file (artifact, poster or sidecar) is deleted between two runs.
DeleteOutput(p) ==
    /\ Resting
    /\ changes < MaxChanges
    /\ p \in DOMAIN files
    /\ files' = [q \in (DOMAIN files) \ {p} |-> files[q]]
    /\ changes' = changes + 1
    /\ NoProcess
    /\ UNCHANGED <<cfg, srcs, content, dims, dirs, runs>>

(***************************************************************************)
(* The specifications.                                                     *)
(***************************************************************************)
JobIds == 1..(Len(ij.list) + Len(vj.list))

Next ==
    \/ StartRun
    \/ CollectJobs(FALSE)
    \/ CollectJobs(TRUE)
    \/ RunJobs(FALSE)
    \/ RunJobs(TRUE)
    \/ QueueGet
    \/ PoolExit
    \/ Interrupt
    \/ \E k \in JobIds : JobStart(k)
    \/ \E k \in JobIds : ConvertImage(k)
    \/ \E k \in JobIds : EncodeVideo(k)
    \/ \E k \in JobIds : PosterCheck(k)
    \/ \E k \in JobIds : ExtractPoster(k)
    \/ \E k \in JobIds : WriteHash(k)
    \/ \E k \in JobIds : QueuePut(k)
    \/ \E src \in DOMAIN content : EditSource(src)
    \/ \E p \in DOMAIN files : DeleteOutput(p)

Spec == Init /\ [][Next]_vars


\* the steps of the program itself (not of the user or the environment)
ProgramStep ==
    \/ CollectJobs(FALSE)
    \/ CollectJobs(TRUE)
    \/ RunJobs(FALSE)
    \/ RunJobs(TRUE)
    \/ QueueGet
    \/ PoolExit
    \/ \E k \in JobIds : JobStart(k)
    \/ \E k \in JobIds : ConvertImage(k)
    \/ \E k \in JobIds : EncodeVideo(k)
    \/ \E k \in JobIds : PosterCheck(k)
    \/ \E k \in JobIds : ExtractPoster(k)
    \/ \E k \in JobIds : WriteHash(k)
    \/ \E k \in JobIds : QueuePut(k)

\* runs of the program that nobody interrupts, edits or deletes under
FairNext == StartRun \/ ProgramStep

\* The program left to itself, with the scheduler's guarantee: while the
\* main thread or a pool worker can take a step, one of them does.
FairSpec == Init /\ [][FairNext]_vars /\ WF_vars(ProgramStep)

(***************************************************************************)
(* Planning on its own: collection applied to policies, probed sizes and   *)
(* source names drawn from small sets, over an empty output directory or   *)
(* the one a successful live run leaves.                                   *)
(***************************************************************************)
\* Config values: the one of the model, a three-step ladder, and a bitrate
\* list shorter than the resolution list.
Policies ==
    { DefaultConfig,
      [DefaultConfig EXCEPT !.RESOLUTIONS    = <<3840, 1920, 640>>,
                            !.VIDEO_BITRATES = <<40, 12, 2>>],
      [DefaultConfig EXCEPT !.VIDEO_BITRATES = <<7>>] }

\* What ffprobe can report: landscape sizes, portrait sizes, and <<>> when
\* the probe fails.
ProbedSizes ==
    { <<2000, 1500>>, <<1000, 750>>, <<1000, 1500>>, <<600, 800>>, <<>> }

\* Source paths as glob returns them.
ImagePaths ==
    { <<"/", "s", "/", "a", ".jpg">>,
      <<"/", "s", "/", "0", " ", "a", " ", "B", ".jpg">>,
      <<"/", "s", "/", " ", "a", ".jpg">>,
      <<"/", "s", "/", "a", " ", " ", "b", ".jpg">> }

VideoPaths ==
    { <<"/", "s", "/", "b", ".mp4">>,
      <<"/", "s", "/", "a", ".mp4">> }

PlanTrees ==
    { [image |-> <<Source(p)>>, video |-> <<>>] : p \in ImagePaths }
    \cup { [image |-> <<>>, video |-> <<Source(v)>>] : v \in VideoPaths }
    \cup { [image |-> <<Source(<<"/", "s", "/", "a", ".jpg">>),
                        Source(<<"/", "s", "/", "0", " ", "a", " ", "B",
                                 ".jpg">>)>>,
            video |-> <<Source(v)>>] : v \in VideoPaths }

RECURSIVE RunAll(_, _, _)
\* the files after the jobs ran one after the other, every tool succeeding
RunAll(fs, cont, jobs) ==
    IF jobs = <<>> THEN fs
    ELSE LET job   == Head(jobs)
             size  == IF job.kind = "video" THEN job.resolution ELSE job.size
             made  == (job.dst :> MediaFile(cont, job.src, size, TRUE)) @@ fs
             shown == IF job.kind = "video"
                         /\ ~isfile(made, poster_dst(job.dst))
                      THEN (poster_dst(job.dst) :> PosterOf(made, job)) @@ made
                      ELSE made
         IN  RunAll(write_hash(shown, cont, job.src, job.dst), cont,
                    Tail(jobs))

\* the output directory a live run over an empty one leaves when every tool
\* succeeds (nothing when collection raises)
Built(c, tree, cont, dm) ==
    LET i == media_jobs(c, <<>>, cont, dm, tree.image, FALSE, FALSE)
        v == media_jobs(c, <<>>, cont, dm, tree.video, TRUE, FALSE)
    IN  IF i.raised \/ v.raised THEN <<>>
        ELSE RunAll(RunAll(<<>>, cont, i.jobs.list), cont, v.jobs.list)

PlanInit ==
    /\ cfg \in Policies
    /\ srcs \in PlanTrees
    /\ content = [s \in AllSources(srcs) |-> 1]
    /\ dims \in [AllSources(srcs) -> ProbedSizes]
    /\ files \in {<<>>, Built(cfg, srcs, content, dims)}
    /\ dirs = {}
    /\ pc = "idle"
    /\ dry_run = FALSE
    /\ ij = NoJobs
    /\ vj = NoJobs
    /\ pool = None
    /\ jpc = [image |-> <<>>, video |-> <<>>]
    /\ queue = 0
    /\ total = 0
    /\ runs = 0
    /\ changes = 0
    /\ hist = EmptyHist

\* a run up to the end of collection
PlanNext == StartRun \/ CollectJobs(FALSE) \/ CollectJobs(TRUE)

PlanSpec == PlanInit /\ [][PlanNext]_vars

(***************************************************************************)
(* Vocabulary of the properties, stated from the disk and the policy.      *)
(***************************************************************************)
Kinds == {"image", "video"}

\* the extensions a source of a kind is rendered to
ExtsOf(kind, src) ==
    IF kind = "video"
    THEN {VIDEO_FMT_EXTS[f] : f \in Range(cfg.VIDEO_FORMATS)}
    ELSE {src.ext}

\* the artifacts the policy asks for: every source, resolution not above
\* the source's width, and extension
Planned(kind) ==
    { [src |-> s, dst |-> DstPath(cfg, s, r, e)] :
        <<s, r, e>> \in
          { t \in Range(srcs[kind]) \X Range(cfg.RESOLUTIONS)
                    \X {".jpg", ".mp4", ".webm"} :
              /\ t[3] \in ExtsOf(kind, t[1])
              /\ t[2] <= dims[t[1]][1] } }

\* collection put the artifact in the job list of its kind
IsJob(kind, a) ==
    \E k \in 1..Len(JobsOf(kind).list) :
        /\ JobsOf(kind).list[k].src = a.src
        /\ JobsOf(kind).list[k].dst = a.dst

\* destination absent, or record absent, or record differs from the hash of
\* the source as it is now
StaleOnDisk(a) ==
    \/ a.dst \notin DOMAIN files
    \/ hash_path_for_dst(a.dst) \notin DOMAIN files
    \/ files[hash_path_for_dst(a.dst)].digest
          # [sha256 |-> <<a.src, content[a.src]>>]

\* media_jobs of the kind has returned and no job of the run has started
Collected(kind) ==
    IF kind = "image" THEN pc \in {"vid_jobs", "run_img"} ELSE pc = "run_img"

OwnDestination(kind, a) ==
    \A b \in Planned(kind) : b.dst = a.dst => b = a

\* the artifact of job k of a kind
ArtifactOf(kind, k) ==
    [src |-> JobsOf(kind).list[k].src, dst |-> JobsOf(kind).list[k].dst]

(***************************************************************************)
(* C2.  A fingerprint record is written only after the job's transform     *)
(* succeeded; when the transform of a job of a live run fails at any step, *)
(* the sidecar record of its destination is what it was when the job       *)
(* started, so the artifact is still stale at the next collection.         *)
(* (Stated while the run lasts, for the jobs whose destination no other    *)
(* artifact shares.)                                                       *)
(***************************************************************************)
C2_FailedJobStaysStale ==
    \A kind \in Kinds :
        \A k \in 1..Len(JobsOf(kind).list) :
            ( /\ ~Resting
              /\ ~dry_run
              /\ jpc[kind][k] \in Raised
              /\ OwnDestination(kind, ArtifactOf(kind, k)) )
            => /\ Sidecar(files, JobsOf(kind).list[k].dst) = hist.pre[kind][k]
               /\ StaleOnDisk(ArtifactOf(kind, k))

(***************************************************************************)
(* C3.  Idempotence: after a live run that returned with every transform   *)
(* succeeding, and with nothing edited or deleted since, the next          *)
(* collection yields no job at all.                                        *)
(***************************************************************************)
C3_SecondRunNoJobs ==
    (pc = "run_img" /\ hist.after_clean)
        => (ij.list = <<>> /\ vj.list = <<>>)

(***************************************************************************)
(* C4.  An artifact that collection classifies as up to date (planned and  *)
(* not a job) is the complete output of a successful transform of the      *)
(* current content of its source; a truncated file is never taken for a    *)
(* cached artifact.  (Stated for the artifacts whose destination no other  *)
(* artifact shares.)                                                       *)
(***************************************************************************)
C4_SkippedIsComplete ==
    \A kind \in Kinds :
        Collected(kind) =>
            \A a \in Planned(kind) :
                (~IsJob(kind, a) /\ OwnDestination(kind, a))
                => /\ a.dst \in DOMAIN files
                   /\ files[a.dst].complete
                   /\ files[a.dst].src = a.src
                   /\ files[a.dst].version = content[a.src]


Draining == pc \in {"drain_img", "drain_vid"}

(***************************************************************************)
(* C5.  run_jobs eventually returns for every job list, under fair         *)
(* scheduling, whether the transforms succeed or fail: the image batch's   *)
(* drain loop is always left for run_vid_jobs, the video batch's for the   *)
(* end of the render phase.                                                *)
(***************************************************************************)
C5_RunJobsReturns == Draining ~> (pc \in {"run_vid", "done"})

(***************************************************************************)
(* C6.  A transform failure is job-local: once an image job of a live run  *)
(* has failed, every other job of that batch and every job of the video    *)
(* batch that follows is still eventually executed (runs to its end or to  *)
(* its own failure).                                                       *)
(***************************************************************************)
C6_FailureIsJobLocal ==
    ( /\ pc = "drain_img"
      /\ ~dry_run
      /\ \E j \in 1..Len(ij.list) : jpc["image"][j] \in Raised )
    ~> ( /\ \A i \in 1..Len(ij.list) :
               jpc["image"][i] \in Raised \cup {"done"}
         /\ \A k \in 1..Len(vj.list) :
               jpc["video"][k] \in Raised \cup {"done"} )

\* the video jobs of the run that invoked the poster extraction for poster p
Extractions(p) ==
    {k \in hist.extracted : poster_dst(vj.list[k].dst) = p}

(***************************************************************************)
(* C7.  Poster sharing: under any interleaving, for the video jobs of one  *)
(* source and one resolution in different formats, at most one poster      *)
(* extraction is invoked for their common poster.                          *)
(***************************************************************************)
C7_OneExtractionPerPoster ==
    \A k \in 1..Len(vj.list) :
        Cardinality(Extractions(poster_dst(vj.list[k].dst))) <= 1

(***************************************************************************)
(* C8.  Two workers that both pass the poster existence check and both     *)
(* attempt to create the same poster is never an error: when no external   *)
(* tool fails of its own, neither of the two jobs is ended by an exception *)
(* (both go on to commit their fingerprint and to signal completion).      *)
(***************************************************************************)
C8_PosterRaceIsNoError ==
    \A k \in 1..Len(vj.list) :
        ( /\ Cardinality(Extractions(poster_dst(vj.list[k].dst))) > 1
          /\ \A j \in 1..Len(vj.list) : jpc["video"][j] # "failed" )
        => jpc["video"][k] \notin Raised

(***************************************************************************)
(* C9.  Image jobs and video jobs run as two batches that never overlap:   *)
(* no video job has started unless every image job of the run has          *)
(* finished, and a pool holds jobs of one kind only, while run_jobs of     *)
(* that kind drains it.                                                    *)
(***************************************************************************)
C9_BatchesNeverOverlap ==
    /\ (\E k \in 1..Len(vj.list) : jpc["video"][k] # "pending")
          => (\A i \in 1..Len(ij.list) : jpc["image"][i] = "done")
    /\ pool # None => \A k \in 1..Len(PoolJobs) : PoolJobs[k].kind = pool
    /\ pool = "image" => pc = "drain_img"
    /\ pool = "video" => pc = "drain_vid"

\* a video job runs in a run that had image jobs
C9_Witness ==
    /\ Len(ij.list) > 0
    /\ \E k \in 1..Len(vj.list) : jpc["video"][k] \notin {"pending", "done"}

\* run_jobs is about to be called with a job list that is None or empty
AtEmptyRunJobs ==
    \/ pc = "run_img" /\ (ij.none \/ ij.list = <<>>)
    \/ pc = "run_vid" /\ (vj.none \/ vj.list = <<>>)

(***************************************************************************)
(* C10.  run_jobs on an empty job list (or on the None of media_jobs)      *)
(* returns at once: the step constructs no pool, awaits no signal, reports *)
(* no progress tick and leaves the filesystem as it is.                    *)
(***************************************************************************)
C10_EmptyRunJobsIsNoOp ==
    [][ AtEmptyRunJobs =>
          /\ pc' = pc \/ pc' = (IF pc = "run_img" THEN "run_vid" ELSE "done")
          /\ pool' = None
          /\ hist'.pools = hist.pools
          /\ hist'.ticks = hist.ticks
          /\ queue' = queue
          /\ total' = total
          /\ files' = files
          /\ dirs' = dirs ]_vars

\* a run whose image jobs were the empty list and whose video jobs were
\* None has passed both run_jobs calls without a pool
C10_Witness ==
    /\ pc = "done"
    /\ ~ij.none /\ ij.list = <<>>
    /\ vj.none
    /\ hist.pools = 0
    /\ hist.ticks = 0

\* the target resolution of a job
ResolutionOf(job) == IF job.kind = "video" THEN job.resolution ELSE job.size

\* the resolutions of the jobs of a kind made for a source, in list order
JobResolutions(kind, src) ==
    LET mine == SelectSeq(JobsOf(kind).list, LAMBDA j : j.src = src)
    IN  [n \in 1..Len(mine) |-> ResolutionOf(mine[n])]

\* the number of artifacts the policy allows a source of a kind: one per
\* resolution not above the width, and per format for a video
Allowed(kind, src) ==
    Cardinality({i \in 1..Len(cfg.RESOLUTIONS) :
                    cfg.RESOLUTIONS[i] <= dims[src][1]})
      * (IF kind = "video" THEN Len(cfg.VIDEO_FORMATS) ELSE 1)

RECURSIVE AllowedOver(_, _)
AllowedOver(kind, ss) ==
    IF ss = <<>> THEN 0
    ELSE Allowed(kind, Head(ss)) + AllowedOver(kind, Tail(ss))

(***************************************************************************)
(* C11.  Never upscaled: no job has a target resolution above the width of *)
(* its source, and jobs plus skipped count exactly the resolutions not     *)
(* above the width (resolutions above it are left out, not clamped); for   *)
(* the list [3840, 1920, 640] and width 2000 the jobs over an empty output *)
(* directory are at [1920, 640].                                           *)
(***************************************************************************)
C11_NeverUpscaled ==
    \A kind \in Kinds :
        Collected(kind) =>
            /\ \A k \in 1..Len(JobsOf(kind).list) :
                  ResolutionOf(JobsOf(kind).list[k])
                     <= dims[JobsOf(kind).list[k].src][1]
            /\ Len(JobsOf(kind).list) + hist.skipped[kind]
                  = AllowedOver(kind, srcs[kind])
            /\ \A s \in Range(srcs["image"]) :
                  ( /\ kind = "image"
                    /\ cfg.RESOLUTIONS = <<3840, 1920, 640>>
                    /\ dims[s][1] = 2000
                    /\ files = <<>> )
                  => JobResolutions("image", s) = <<1920, 640>>

\* the ladder [3840, 1920, 640] planned for an image 2000 wide
C11_Witness ==
    /\ pc = "run_img"
    /\ cfg.RESOLUTIONS = <<3840, 1920, 640>>
    /\ Len(srcs["image"]) = 1
    /\ dims[srcs["image"][1]][1] = 2000
    /\ JobResolutions("image", srcs["image"][1]) = <<1920, 640>>

\* the longer side of a probed source
LongerSide(src) ==
    IF dims[src][1] > dims[src][2] THEN dims[src][1] ELSE dims[src][2]

\* the policy's resolutions not above a limit, in list order
UpTo(limit) == SelectSeq(cfg.RESOLUTIONS, LAMBDA r : r <= limit)

(***************************************************************************)
(* C12 as stated.  For an image source, planning over an empty output      *)
(* directory emits exactly one artifact for each policy resolution that    *)
(* does not exceed the longer side max(width, height) of the image, and    *)
(* none for any other resolution, portrait or landscape.                   *)
(***************************************************************************)
C12_ImagePlanByLongerSide ==
    (Collected("image") /\ files = <<>>) =>
        \A s \in Range(srcs["image"]) :
            JobResolutions("image", s) = UpTo(LongerSide(s))

(***************************************************************************)
(* C12 amended.  For an image source, planning over an empty output        *)
(* directory emits exactly one artifact for each policy resolution that    *)
(* does not exceed the width of the image, and none for any other          *)
(* resolution, portrait or landscape.                                      *)
(***************************************************************************)
C12_ImagePlanByWidth ==
    (Collected("image") /\ files = <<>>) =>
        \A s \in Range(srcs["image"]) :
            JobResolutions("image", s) = UpTo(dims[s][1])

\* a portrait image was planned: 1280 lies between its width and its height
C12_Witness ==
    /\ pc = "run_img"
    /\ files = <<>>
    /\ \E s \in Range(srcs["image"]) :
          /\ dims[s] = <<1000, 1500>>
          /\ 1280 \in Range(cfg.RESOLUTIONS)
          /\ JobResolutions("image", s) = <<640>>

\* the positions of a resolution in the policy's resolution list
IndexesOf(r) == {i \in 1..Len(cfg.RESOLUTIONS) : cfg.RESOLUTIONS[i] = r}

\* every video job carries the bitrate at the index of its resolution
PairedByPosition ==
    \A k \in 1..Len(vj.list) :
        \E i \in IndexesOf(vj.list[k].resolution) :
            /\ i <= Len(cfg.VIDEO_BITRATES)
            /\ vj.list[k].bitrate = cfg.VIDEO_BITRATES[i]

\* collection ended with an exception
CollectionRaised == pc = "crashed" /\ pool = None /\ total = 0

(***************************************************************************)
(* C13.  Positional bitrate pairing: every planned video artifact whose    *)
(* resolution is at index i of the resolution list carries the bitrate at  *)
(* index i of the bitrate list, for every format and also when earlier     *)
(* resolutions were skipped for the width; and a resolution with no paired *)
(* bitrate yields no artifact rather than an error: when every probe       *)
(* succeeds, collection does not raise.                                    *)
(***************************************************************************)
C13_PairedOrLeftOut ==
    /\ PairedByPosition
    /\ CollectionRaised => \E s \in AllSources(srcs) : dims[s] = <<>>

\* <<resolution, format>> of the video jobs made for a source, in list order
JobKeys(src) ==
    LET mine == SelectSeq(vj.list, LAMBDA j : j.src = src)
    IN  [n \in 1..Len(mine) |-> <<mine[n].resolution, mine[n].format>>]

\* the admissible resolutions in list order and, within one resolution, the
\* formats as declared
ByResolutionThenFormat(src) ==
    LET rs == UpTo(dims[src][1])
    IN  Flatten([n \in 1..Len(rs) |->
            [f \in 1..Len(cfg.VIDEO_FORMATS) |->
                <<rs[n], cfg.VIDEO_FORMATS[f]>>]])

\* the formats as declared and, within one format, the admissible
\* resolutions in list order
ByFormatThenResolution(src) ==
    LET rs == UpTo(dims[src][1])
    IN  Flatten([f \in 1..Len(cfg.VIDEO_FORMATS) |->
            [n \in 1..Len(rs) |->
                <<rs[n], cfg.VIDEO_FORMATS[f]>>]])

(***************************************************************************)
(* C14 as stated.  The job list planned for a video source over an empty   *)
(* output directory is ordered by resolution first (descending, as the     *)
(* policy lists them) and, within one resolution, by the declared order of *)
(* the formats.                                                            *)
(***************************************************************************)
C14_OrderResolutionFirst ==
    (Collected("video") /\ files = <<>>) =>
        \A s \in Range(srcs["video"]) :
            JobKeys(s) = ByResolutionThenFormat(s)

(***************************************************************************)
(* C14 amended.  The job list planned for a video source over an empty     *)
(* output directory is ordered by the declared order of the formats first  *)
(* and, within one format, by resolution in the order of the policy's list *)
(* (descending when the policy lists them so); the list is a function of   *)
(* the policy, the probed width and the output directory alone.            *)
(***************************************************************************)
C14_OrderFormatFirst ==
    (Collected("video") /\ files = <<>>) =>
        \A s \in Range(srcs["video"]) :
            JobKeys(s) = ByFormatThenResolution(s)

\* two formats at two admissible resolutions were planned for one video
C14_Witness ==
    /\ pc = "run_img"
    /\ files = <<>>
    /\ \E s \in Range(srcs["video"]) :
          JobKeys(s) = << <<1920, "h264">>, <<640, "h264">>,
                          <<1920, "webm">>, <<640, "webm">> >>

\* a step of the wrapper of job k of a kind, the job's dry_run flag set
DryJobStep(kind, k) ==
    /\ pool = kind
    /\ pool' = pool
    /\ JobsOf(kind).list[k].dry_run
    /\ jpc'[kind][k] # jpc[kind][k]

(***************************************************************************)
(* C15.  Dry-run performs zero mutation: every step of executing an image  *)
(* or video job whose dry_run flag is true, from any state of the output   *)
(* directory, leaves the directories and the files (artifacts, posters,    *)
(* sidecar records) as they are.                                           *)
(***************************************************************************)
C15_DryRunWritesNothing ==
    [][ \A kind \in Kinds :
          \A k \in 1..Len(JobsOf(kind).list) :
              DryJobStep(kind, k) => (files' = files /\ dirs' = dirs) ]_vars

\* a dry-run video job ran to its end over the output of an earlier live run
C15_Witness ==
    /\ dry_run
    /\ files # <<>>
    /\ \E k \in 1..Len(vj.list) :
          vj.list[k].dry_run /\ jpc["video"][k] = "done"

(***************************************************************************)
(* C16.  Digest caching: within one planning pass the content hash of a    *)
(* source file is computed at most once per source, however many planned   *)
(* artifacts share that source.                                            *)
(***************************************************************************)
C16_HashOncePerSource ==
    \A kind \in Kinds :
        Collected(kind) =>
            \A n \in 1..Len(hist.hashed[kind]) : hist.hashed[kind][n] <= 1

(***************************************************************************)
(* C17.  A dimension probe failure for one source is a planning failure    *)
(* for that source only: under a policy that pairs every resolution with a *)
(* bitrate, collection does not raise, and once both collections returned  *)
(* over an empty output directory every source whose probe succeeded has   *)
(* all its jobs in the lists the run goes on to execute.                   *)
(***************************************************************************)
C17_ProbeFailureIsPerSource ==
    Len(cfg.VIDEO_BITRATES) >= Len(cfg.RESOLUTIONS) =>
        /\ ~CollectionRaised
        /\ (pc = "run_img" /\ files = <<>>) =>
              \A kind \in Kinds :
                  \A s \in Range(srcs[kind]) :
                      dims[s] # <<>> =>
                          Len(JobResolutions(kind, s)) = Allowed(kind, s)

\* the summary line of a kind was logged, with the counts of its collection
SummaryReported(kind) ==
    \E n \in 1..Len(hist.summary) :
        /\ hist.summary[n].kind = kind
        /\ hist.summary[n].running = Len(JobsOf(kind).list)
        /\ hist.summary[n].skipped = hist.skipped[kind]

\* the render phase of the run is past both collections
PastCollection ==
    pc \in {"run_img", "drain_img", "run_vid", "drain_vid", "done"}

(***************************************************************************)
(* C18.  In every run, once collection is over and before the first job of *)
(* either batch starts, the summary counts (jobs to run, skipped) have     *)
(* been reported for the image batch and for the video batch, also when a  *)
(* media kind has no source files.                                         *)
(***************************************************************************)
C18_SummariesBeforeJobs ==
    PastCollection => \A kind \in Kinds : SummaryReported(kind)

\* the base name of a path without its extension: what follows the last
\* "/", less the extension it ends in
BaseNameNoExt(path) ==
    LET slashes == {i \in 1..Len(path) : path[i] = "/"}
        from    == IF slashes = {} THEN 1
                   ELSE (CHOOSE i \in slashes : \A j \in slashes : j <= i) + 1
        name    == SubSeq(path, from, Len(path))
    IN  IF Len(name) > 1 /\ name[Len(name)] \in Extensions
        THEN SubSeq(name, 1, Len(name) - 1)
        ELSE name

RECURSIVE DropSpace(_)
\* a string without the whitespace it starts with
DropSpace(str) ==
    IF str # <<>> /\ Head(str) \in Whitespace THEN DropSpace(Tail(str))
    ELSE str

RECURSIVE CollapseRuns(_)
\* each run of whitespace replaced by a single hyphen
CollapseRuns(str) ==
    IF str = <<>> THEN <<>>
    ELSE IF Head(str) \in Whitespace
         THEN <<"-">> \o CollapseRuns(DropSpace(Tail(str)))
         ELSE <<Head(str)>> \o CollapseRuns(Tail(str))

RECURSIVE DropSpaceAtEnd(_)
DropSpaceAtEnd(str) ==
    IF str # <<>> /\ str[Len(str)] \in Whitespace
    THEN DropSpaceAtEnd(SubSeq(str, 1, Len(str) - 1))
    ELSE str

\* a string without the whitespace at its two ends
Trim(str) == DropSpaceAtEnd(DropSpace(str))

\* every job of the run, of either kind
AllJobs == Range(ij.list) \cup Range(vj.list)

FileName(f) == f.pre \o f.name \o <<"-", ToString(f.res), f.ext>> \o f.suf

\* the destinations the policy asks for
Destinations == {a.dst : a \in Planned("image") \cup Planned("video")}

\* the sidecar records on disk
Records == {p \in DOMAIN files : files[p].kind = "hash"}

(***************************************************************************)
(* C20.  The sidecar path is an injective function of the destination      *)
(* path: it lies in the same directory and is named '.' + file name +      *)
(* '.src.sha256', two different destinations never share a sidecar, every  *)
(* record on disk is the sidecar of one destination, and after a live run  *)
(* that succeeded there is one record per artifact, not per source.        *)
(***************************************************************************)
C20_SidecarPerDestination ==
    /\ \A d \in Destinations :
          /\ hash_path_for_dst(d).dir = d.dir
          /\ FileName(hash_path_for_dst(d).file)
                = <<".">> \o FileName(d.file) \o <<".src.sha256">>
    /\ \A d1, d2 \in Destinations :
          hash_path_for_dst(d1) = hash_path_for_dst(d2) => d1 = d2
    /\ \A p \in Records :
          Cardinality({d \in Destinations : hash_path_for_dst(d) = p}) = 1
    /\ CleanRunBehind =>
          Cardinality(Records) = Cardinality(Destinations)

\* the two formats of one video at one resolution, each with its own record
C20_Witness ==
    /\ CleanRunBehind
    /\ Cardinality(Planned("video")) = 2
    /\ \A a \in Planned("video") : hash_path_for_dst(a.dst) \in Records
    /\ Cardinality(Records) = 3

\* the jobs of a kind whose wrapper has put its signal and returned
Finished(kind) == {k \in 1..Len(JobsOf(kind).list) : jpc[kind][k] = "done"}

\* the signals run_jobs has consumed from the queue of the live pool
Consumed == Len(PoolJobs) - total

\* run_jobs of a kind has returned
Returned(kind) ==
    IF kind = "image" THEN pc \in {"run_vid", "drain_vid", "done"}
    ELSE pc = "done"

(***************************************************************************)
(* C21.  Completion accounting in run_jobs: the signals put on the queue   *)
(* are one per job whose execute finished (whatever the order of the       *)
(* jobs); the progress ticks never exceed the finished jobs; every job     *)
(* puts its one signal, so that once no wrapper can take a further step    *)
(* there are len(jobs) signals; and run_jobs returns only after consuming  *)
(* them, so at return every submitted job has finished and, in live mode,  *)
(* its fingerprint record is on disk.                                      *)
(***************************************************************************)
C21_CompletionAccounting ==
    /\ pool # None =>
          /\ queue + Consumed = Cardinality(Finished(pool))
          /\ Consumed <= Cardinality(Finished(pool))
          /\ PoolQuiet => queue + Consumed = Len(PoolJobs)
    /\ \A kind \in Kinds :
          Returned(kind) =>
              \A k \in 1..Len(JobsOf(kind).list) :
                  /\ k \in Finished(kind)
                  /\ ~dry_run =>
                        isfile(files,
                               hash_path_for_dst(JobsOf(kind).list[k].dst))

(***************************************************************************)
(* C22.  Dry-run reports the intended actions as live mode performs them:  *)
(* when a dry run is followed, with nothing edited or deleted in between,  *)
(* by a live run of the same jobs in which every tool succeeds, each job   *)
(* of the live run performs the actions the dry run recorded for it        *)
(* (directory creation, transform, poster extraction), also for two video  *)
(* jobs of one resolution in different formats.                            *)
(***************************************************************************)
C22_DryRunReportsLiveActions ==
    (pc = "done" /\ ~dry_run /\ hist.dry_log.valid)
        => hist.log = hist.dry_log.log

\* the record of the artifact is on disk and holds the hash of the source
\* as it is now
RecordCurrent(a) ==
    /\ isfile(files, hash_path_for_dst(a.dst))
    /\ files[hash_path_for_dst(a.dst)].digest = hash_file(content, a.src)

(***************************************************************************)
(* C23.  Poster freshness: whenever the fingerprint record of a video      *)
(* artifact equals the current hash of its source, the poster kept for     *)
(* that artifact's resolution is complete and was extracted from an encode *)
(* of that same source content; a poster from older content or from a      *)
(* failed extraction is not kept once the fingerprint is committed.        *)
(***************************************************************************)
C23_PosterFresh ==
    \A a \in Planned("video") :
        (RecordCurrent(a) /\ isfile(files, poster_dst(a.dst)))
        => /\ files[poster_dst(a.dst)].complete
           /\ files[poster_dst(a.dst)].src = a.src
           /\ files[poster_dst(a.dst)].version = content[a.src]

(***************************************************************************)
(* C24.  Destination uniqueness: in one collection pass no two jobs of a   *)
(* job list have the same destination path (and hence none share a         *)
(* sidecar), also for two sources whose base names differ only in          *)
(* whitespace versus hyphens.                                              *)
(***************************************************************************)
C24_DestinationsDistinct ==
    \A kind \in Kinds :
        \A k1, k2 \in 1..Len(JobsOf(kind).list) :
            k1 # k2 =>
                /\ JobsOf(kind).list[k1].dst # JobsOf(kind).list[k2].dst
                /\ hash_path_for_dst(JobsOf(kind).list[k1].dst)
                      # hash_path_for_dst(JobsOf(kind).list[k2].dst)

(***************************************************************************)
(* C25.  Poster/image separation: the poster path of a video job (its      *)
(* destination with the extension replaced by '.jpg') never equals the     *)
(* destination path of an image job of the same run, also when an image    *)
(* source and a video source share the same sanitized base name.           *)
(***************************************************************************)
C25_PosterIsNoImageArtifact ==
    \A v \in Range(vj.list) :
        \A i \in Range(ij.list) :
            poster_dst(v.dst) # i.dst

\* a step of the wrapper of job k of a kind
JobStep(kind, k) ==
    /\ pool = kind
    /\ pool' = pool
    /\ jpc'[kind][k] # jpc[kind][k]

\* the step leaves the file at path p as it is (there or not there)
Kept(p) ==
    /\ (p \in DOMAIN files') <=> (p \in DOMAIN files)
    /\ p \in DOMAIN files => files'[p] = files[p]

\* the paths a job may write: its destination, that destination's sidecar
\* and, for a video, the poster of that destination
OwnPaths(job) ==
    {job.dst, hash_path_for_dst(job.dst)}
      \cup (IF job.kind = "video" THEN {poster_dst(job.dst)} ELSE {})

(***************************************************************************)
(* C26.  Frame of a job: every step of executing one job, successful or    *)
(* failed and under any interleaving, changes at most that job's own       *)
(* destination file, its sidecar record, its poster (video only) and its   *)
(* directory; the source files stay as they are, and so do the destination *)
(* file and the sidecar record of every other artifact.                    *)
(***************************************************************************)
C26_JobFrame ==
    [][ \A kind \in Kinds :
          \A k \in 1..Len(JobsOf(kind).list) :
              JobStep(kind, k) =>
                  LET job == JobsOf(kind).list[k]
                  IN  /\ \A p \in (DOMAIN files \cup DOMAIN files')
                                     \ OwnPaths(job) : Kept(p)
                      /\ dirs \subseteq dirs'
                      /\ dirs' \subseteq dirs \cup {job.dst.dir}
                      /\ content' = content
                      /\ srcs' = srcs
                      /\ \A b \in Planned("image") \cup Planned("video") :
                            b # ArtifactOf(kind, k) =>
                                /\ Kept(b.dst)
                                /\ Kept(hash_path_for_dst(b.dst)) ]_vars

=============================================================================
